---- MODULE Spec2Model ----
(***************************************************************************)
(* Model of interpreter/terminal_interface/start_terminal_interface.py:    *)
(* the deprecation rewrite of sys.argv, the argparse-built parser, the     *)
(* special commands, the safety check, the shortcut flags, the two         *)
(* set_attributes passes around profile(), the model-default inference,    *)
(* the best-effort update check and the dispatch to one terminal mode.     *)
(*                                                                         *)
(* Python values: None is the empty tuple <<>>, any other value v is the   *)
(* one-element tuple <<v>>.  An argparse namespace and an object's         *)
(* attributes are functions from names to such values.                     *)
(*                                                                         *)
(* The schema has 31 entries; the model keeps every entry that has a       *)
(* default, an action or a role in control flow, and a representative of   *)
(* each remaining kind (store_true flag, str, int, BooleanOptionalAction). *)
(* The entries left out (custom_instructions, system_message, temperature, *)
(* llm_supports_vision, max_budget, api_base, api_key, api_version,        *)
(* max_output, force_task_completion, speak_messages, debug, multi_line)   *)
(* are default-None bound options handled exactly like offline, model,     *)
(* context_window and llm_supports_functions.                              *)
(***************************************************************************)
EXTENDS Integers, Sequences, FiniteSets, TLC

VARIABLES pc, argv0, argv, notices, args, profile_file, entry,
          interps, llms, interpreter, log, update_failed, exc

vars == <<pc, argv0, argv, notices, args, profile_file, entry,
          interps, llms, interpreter, log, update_failed, exc>>

\* ------------------------------------------------------------------ bounds
\* inputs of one run that differ from "nothing given": command-line options,
\* attributes the profile sets, attributes the caller's object already holds
MaxInputs == 3
\* tokens on the command line in the argument-vector specification
MaxArgv == 3

\* ------------------------------------------------------------ Python values
None == <<>>
Some(v) == <<v>>
Truthy(x) == x # None /\ x[1] = TRUE
Range(s) == {s[i] : i \in 1..Len(s)}
Override(f, g) == [k \in DOMAIN f |-> IF k \in DOMAIN g THEN g[k] ELSE f[k]]

\* ------------------------------------------------------------------ schema
\* parser.parse_args() with nothing on the command line: each entry's "default"
DefaultArgs ==
  [ profile |-> Some("default.yaml"),
    auto_run |-> None,
    verbose |-> None,
    model |-> None,
    llm_supports_functions |-> None,
    context_window |-> None,
    max_tokens |-> None,
    disable_telemetry |-> Some(TRUE),
    offline |-> None,
    safe_mode |-> Some("off"),
    fast |-> None,
    local |-> None,
    vision |-> None,
    os |-> None,
    reset_profile |-> Some("NOT_PROVIDED"),
    profiles |-> None,
    conversations |-> None,
    server |-> None,
    version |-> None ]

ArgNames == DOMAIN DefaultArgs

\* the "attribute" key of the schema entries: the object is the one the names
\* interpreter / interpreter.llm referred to when the table was built
Binding ==
  [ auto_run |-> [object |-> "interpreter", attr_name |-> "auto_run"],
    verbose |-> [object |-> "interpreter", attr_name |-> "verbose"],
    model |-> [object |-> "llm", attr_name |-> "model"],
    llm_supports_functions |-> [object |-> "llm", attr_name |-> "supports_functions"],
    context_window |-> [object |-> "llm", attr_name |-> "context_window"],
    max_tokens |-> [object |-> "llm", attr_name |-> "max_tokens"],
    disable_telemetry |-> [object |-> "interpreter", attr_name |-> "anonymous_telemetry"],
    offline |-> [object |-> "interpreter", attr_name |-> "offline"],
    safe_mode |-> [object |-> "interpreter", attr_name |-> "safe_mode"] ]

BoundNames == DOMAIN Binding

\* the objects start_terminal_interface is called with
EntryInterp == "i1"
EntryLlm == "l1"

\* OpenInterpreter(): the attributes a freshly constructed object holds
BuiltinInterp ==
  [ auto_run |-> Some(FALSE),
    safe_mode |-> Some("off"),
    anonymous_telemetry |-> Some(TRUE),
    offline |-> Some(FALSE),
    verbose |-> Some(FALSE),
    in_terminal_interface |-> Some(FALSE),
    llm |-> EntryLlm ]

BuiltinLlm ==
  [ model |-> Some("gpt-4"),
    context_window |-> None,
    max_tokens |-> None,
    supports_functions |-> None ]

InterpAttrs == DOMAIN BuiltinInterp \ {"llm"}
LlmAttrs == DOMAIN BuiltinLlm

\* --------------------------------------------------------- argument vector
Tokens == {"--debug_mode", "--verbose", "--model", "--reset_profile", "llama3"}
OptionStrings == {"--verbose", "--model", "--reset_profile"}
\* argparse: a token starting with "-" is never taken as an option's value
LooksLikeOption(t) == t \in OptionStrings \cup {"--debug_mode"}

RECURSIVE RemoveFirst(_, _)
RemoveFirst(s, x) ==
  IF s = <<>> THEN <<>>
  ELSE IF Head(s) = x THEN Tail(s)
  ELSE <<Head(s)>> \o RemoveFirst(Tail(s), x)

\* the loop over deprecated_flags: one entry, "--debug_mode" -> "--verbose"
DeprecationRewrite(v) ==
  IF "--debug_mode" \in Range(v)
  THEN [argv |-> Append(RemoveFirst(v, "--debug_mode"), "--verbose"), notices |-> 1]
  ELSE [argv |-> v, notices |-> 0]

UsageError == [ok |-> FALSE, ns |-> DefaultArgs]

RECURSIVE ParseFrom(_, _, _)
ParseFrom(v, i, ns) ==
  IF i > Len(v) THEN [ok |-> TRUE, ns |-> ns]
  ELSE LET t == v[i]
           value == i + 1 <= Len(v) /\ ~LooksLikeOption(v[i + 1])
       IN CASE t = "--verbose" -> ParseFrom(v, i + 1, [ns EXCEPT !.verbose = Some(TRUE)])
            [] t = "--model" ->
                 IF value THEN ParseFrom(v, i + 2, [ns EXCEPT !.model = Some(v[i + 1])])
                 ELSE UsageError
            [] t = "--reset_profile" ->
                 IF value THEN ParseFrom(v, i + 2, [ns EXCEPT !.reset_profile = Some(v[i + 1])])
                 ELSE ParseFrom(v, i + 1, [ns EXCEPT !.reset_profile = None])
            [] OTHER -> UsageError

ParseArgs(v) == ParseFrom(v, 1, DefaultArgs)

\* ------------------------------------------------------------ the pipeline
\* variant: the version check moved ahead of the other two
SpecialCommandVersionFirst(a) ==
  IF Truthy(a.version) THEN "print_version"
  ELSE IF Truthy(a.profiles) THEN "open_profile_dir"
  ELSE IF a.reset_profile # Some("NOT_PROVIDED") THEN "reset_profile"
  ELSE "none"

\* the three checks that follow parser.parse_args(), in the order of the code
SpecialCommand(a) ==
  IF Truthy(a.profiles) THEN "open_profile_dir"
  ELSE IF a.reset_profile # Some("NOT_PROVIDED") THEN "reset_profile"
  ELSE IF Truthy(a.version) THEN "print_version"
  ELSE "none"

\* "if safe_mode and auto_run are enabled, safe_mode disables auto_run"
SafetyDisablesAutoRun(o) ==
  IF Truthy(o.auto_run) /\ (o.safe_mode = Some("ask") \/ o.safe_mode = Some("auto"))
  THEN [o EXCEPT !.auto_run = Some(FALSE)]
  ELSE o

\* the four shortcut flags, each overwriting args.profile in turn
ShortcutProfile(a) ==
  LET p1 == IF Truthy(a.fast) THEN Some("fast.yaml") ELSE a.profile
      p2 == IF Truthy(a.vision) THEN Some("vision.yaml") ELSE p1
      p3 == IF Truthy(a.os) THEN Some("os.py") ELSE p2
  IN IF Truthy(a.local) THEN Some("local.py") ELSE p3

\* every namespace entry that is not None and whose schema
\* entry has an "attribute" is written on the object the schema entry holds
BoundTo(object, attr, a) ==
  {n \in BoundNames : /\ Binding[n].object = object
                      /\ Binding[n].attr_name = attr
                      /\ a[n] # None}

set_attributes(o, object, a) ==
  [k \in DOMAIN o |->
     IF BoundTo(object, k, a) = {} THEN o[k]
     ELSE a[CHOOSE n \in BoundTo(object, k, a) : TRUE]]

\* profile(interpreter, args.profile): the attributes the profile defines are
\* applied to the object passed in, or to a new object that is returned
profile(I, L, cur, pf) ==
  IF pf.new_object
  THEN [ interps |-> I @@ ("i2" :> Override([I[cur] EXCEPT !.llm = "l2"], pf.sets)),
         llms |-> L @@ ("l2" :> Override(L[I[cur].llm], pf.sets)),
         interpreter |-> "i2" ]
  ELSE [ interps |-> [I EXCEPT ![cur] = Override(I[cur], pf.sets)],
         llms |-> [L EXCEPT ![I[cur].llm] = Override(L[I[cur].llm], pf.sets)],
         interpreter |-> cur ]

\* variant: the assignment without its "is None" guard
InferFieldUnguarded(cur, known) == Some(known)

\* "if interpreter.llm.<field> is None: interpreter.llm.<field> = <known>"
InferField(cur, known) == IF cur = None THEN Some(known) ELSE cur

InferModelDefaults(l) ==
  LET a == IF l.model = Some("gpt-4-1106-preview")
           THEN [l EXCEPT !.context_window = InferField(@, 128000),
                          !.max_tokens = InferField(@, 4096),
                          !.supports_functions = InferField(@, TRUE)]
           ELSE l
  IN IF a.model = Some("gpt-3.5-turbo-1106")
     THEN [a EXCEPT !.context_window = InferField(@, 16000),
                    !.max_tokens = InferField(@, 4096),
                    !.supports_functions = InferField(@, TRUE)]
     ELSE a

\* variant: no try/except around the update check
UpdateFailureUncaught == "propagated"

\* "except: pass" around the update check: control falls through
UpdateFailurePc == "dispatch"

\* variant: the --server check placed before the --conversations check
DispatchTargetServerFirst(a) ==
  IF Truthy(a.server) THEN "server"
  ELSE IF Truthy(a.conversations) THEN "conversation_navigator"
  ELSE "chat"

\* the if-chain after the update check
DispatchTarget(a) ==
  IF Truthy(a.conversations) THEN "conversation_navigator"
  ELSE IF Truthy(a.server) THEN "server"
  ELSE "chat"

\* variant: validate_llm_settings(interpreter) left out
ChatPathUnvalidated == "chat"

\* the statement that follows the two early returns
ChatPathPc == "validate"

\* ------------------------------------------------------------------ inputs
\* what one run can be given: command-line options (by schema name), the
\* attributes the applied profile defines (p_...), and attributes the caller's
\* object already holds at entry (b_...)
InputChoices ==
  [ profile |-> <<Some("my.yaml")>>,
    auto_run |-> <<Some(TRUE)>>,
    verbose |-> <<Some(TRUE)>>,
    model |-> <<Some("gpt-4-1106-preview"), Some("gpt-3.5-turbo-1106"), Some("llama3")>>,
    llm_supports_functions |-> <<Some(TRUE), Some(FALSE)>>,
    context_window |-> <<Some(8000)>>,
    max_tokens |-> <<Some(1000)>>,
    disable_telemetry |-> <<Some(FALSE)>>,
    offline |-> <<Some(TRUE)>>,
    safe_mode |-> <<Some("ask"), Some("auto")>>,
    fast |-> <<Some(TRUE)>>,
    local |-> <<Some(TRUE)>>,
    vision |-> <<Some(TRUE)>>,
    os |-> <<Some(TRUE)>>,
    reset_profile |-> <<None, Some("my.yaml")>>,
    profiles |-> <<Some(TRUE)>>,
    conversations |-> <<Some(TRUE)>>,
    server |-> <<Some(TRUE)>>,
    version |-> <<Some(TRUE)>>,
    p_new_object |-> <<Some(TRUE)>>,
    p_auto_run |-> <<Some(TRUE), Some(FALSE)>>,
    p_safe_mode |-> <<Some("ask")>>,
    p_anonymous_telemetry |-> <<Some(FALSE)>>,
    p_offline |-> <<Some(TRUE)>>,
    p_model |-> <<Some("gpt-4-1106-preview")>>,
    p_context_window |-> <<Some(32000)>>,
    p_max_tokens |-> <<Some(2000)>>,
    p_supports_functions |-> <<Some(FALSE)>>,
    b_auto_run |-> <<Some(TRUE)>>,
    b_safe_mode |-> <<Some("ask"), Some("auto")>> ]

ProfileKey ==
  [ auto_run |-> "p_auto_run",
    safe_mode |-> "p_safe_mode",
    anonymous_telemetry |-> "p_anonymous_telemetry",
    offline |-> "p_offline",
    model |-> "p_model",
    context_window |-> "p_context_window",
    max_tokens |-> "p_max_tokens",
    supports_functions |-> "p_supports_functions" ]

BuiltinKey == [auto_run |-> "b_auto_run", safe_mode |-> "b_safe_mode"]

RECURSIVE KeySets(_)
KeySets(k) ==
  IF k = 0 THEN {{}}
  ELSE LET P == KeySets(k - 1)
       IN P \cup {s \cup {x} : s \in P, x \in DOMAIN InputChoices}

Picks ==
  UNION { {f \in [S -> 1..3] : \A k \in S : f[k] <= Len(InputChoices[k])} :
          S \in KeySets(MaxInputs) }

ArgsOf(f) ==
  [n \in ArgNames |-> IF n \in DOMAIN f THEN InputChoices[n][f[n]] ELSE DefaultArgs[n]]

ProfileOf(f) ==
  [ new_object |-> "p_new_object" \in DOMAIN f,
    sets |-> [a \in {x \in DOMAIN ProfileKey : ProfileKey[x] \in DOMAIN f} |->
                InputChoices[ProfileKey[a]][f[ProfileKey[a]]]] ]

EntryInterpOf(f) ==
  [k \in DOMAIN BuiltinInterp |->
     IF k \in DOMAIN BuiltinKey /\ BuiltinKey[k] \in DOMAIN f
     THEN InputChoices[BuiltinKey[k]][f[BuiltinKey[k]]]
     ELSE BuiltinInterp[k]]

NoProfile == [new_object |-> FALSE, sets |-> <<>>]

\* ----------------------------------------------------------------- actions
\* how a call to a collaborator ends: it returns, or it raises
Outcomes == {"none", "Exception", "KeyboardInterrupt"}

Current == interps[interpreter]

\* start_terminal_interface(interpreter) just after parser.parse_args()
Init ==
  \E f \in Picks :
    /\ pc = "special"
    /\ argv0 = <<>>
    /\ argv = <<>>
    /\ notices = 0
    /\ args = ArgsOf(f)
    /\ profile_file = ProfileOf(f)
    /\ interps = (EntryInterp :> EntryInterpOf(f))
    /\ llms = (EntryLlm :> BuiltinLlm)
    /\ entry = [interps |-> interps, llms |-> llms]
    /\ interpreter = EntryInterp
    /\ log = <<>>
    /\ update_failed = FALSE
    /\ exc = "none"

Special ==
  /\ pc = "special"
  /\ IF SpecialCommand(args) # "none"
     THEN /\ log' = Append(log, SpecialCommand(args))
          /\ pc' = "returned"
     ELSE /\ log' = log
          /\ pc' = "safety"
  /\ UNCHANGED <<argv0, argv, notices, args, profile_file, entry, interps, llms,
                 interpreter, update_failed, exc>>

SafetyCheck ==
  /\ pc = "safety"
  /\ interps' = [interps EXCEPT ![interpreter] = SafetyDisablesAutoRun(@)]
  /\ pc' = "shortcut"
  /\ UNCHANGED <<argv0, argv, notices, args, profile_file, entry, llms,
                 interpreter, log, update_failed, exc>>

Shortcut ==
  /\ pc = "shortcut"
  /\ args' = [args EXCEPT !.profile = ShortcutProfile(args)]
  /\ pc' = "bind1"
  /\ UNCHANGED <<argv0, argv, notices, profile_file, entry, interps, llms,
                 interpreter, log, update_failed, exc>>

Bind(from, to) ==
  /\ pc = from
  /\ interps' = [interps EXCEPT ![EntryInterp] = set_attributes(@, "interpreter", args)]
  /\ llms' = [llms EXCEPT ![EntryLlm] = set_attributes(@, "llm", args)]
  /\ log' = Append(log, "set_attributes")
  /\ pc' = to
  /\ UNCHANGED <<argv0, argv, notices, args, profile_file, entry, interpreter,
                 update_failed, exc>>

Bind1 == Bind("bind1", "profile")

Profile ==
  /\ pc = "profile"
  /\ log' = Append(log, "profile")
  /\ \E e \in Outcomes :
       /\ exc' = e
       /\ IF e # "none"
          THEN /\ pc' = "propagated"
               /\ UNCHANGED <<interps, llms, interpreter>>
          ELSE LET r == profile(interps, llms, interpreter, profile_file)
               IN /\ interps' = r.interps
                  /\ llms' = r.llms
                  /\ interpreter' = r.interpreter
                  /\ pc' = "bind2"
  /\ UNCHANGED <<argv0, argv, notices, args, profile_file, entry, update_failed>>

Bind2 == Bind("bind2", "infer")

Infer ==
  /\ pc = "infer"
  /\ llms' = [llms EXCEPT ![Current.llm] = InferModelDefaults(@)]
  /\ log' = Append(log, "infer_model_defaults")
  /\ pc' = "update"
  /\ UNCHANGED <<argv0, argv, notices, args, profile_file, entry, interps,
                 interpreter, update_failed, exc>>

\* the try block: check_for_update() is called unless interpreter.offline; it
\* returns False, returns True (a message is displayed) or raises; anything
\* raised inside the block is caught by the bare except
UpdateCheck ==
  /\ pc = "update"
  /\ IF ~Truthy(Current.offline)
     THEN \E outcome \in {"current", "newer", "raise"} :
            /\ log' = IF outcome = "newer"
                      THEN log \o <<"check_for_update", "display_markdown_message">>
                      ELSE Append(log, "check_for_update")
            /\ update_failed' = (outcome = "raise")
            /\ pc' = IF outcome = "raise" THEN UpdateFailurePc ELSE "dispatch"
     ELSE /\ pc' = "dispatch"
          /\ UNCHANGED <<log, update_failed>>
  /\ UNCHANGED <<argv0, argv, notices, args, profile_file, entry, interps, llms,
                 interpreter, exc>>

Dispatch ==
  /\ pc = "dispatch"
  /\ IF DispatchTarget(args) = "chat"
     THEN /\ pc' = ChatPathPc
          /\ log' = log
     ELSE /\ pc' = "in_mode"
          /\ log' = Append(log, DispatchTarget(args))
  /\ UNCHANGED <<argv0, argv, notices, args, profile_file, entry, interps, llms,
                 interpreter, update_failed, exc>>

Validate ==
  /\ pc = "validate"
  /\ log' = Append(log, "validate_llm_settings")
  /\ \E e \in Outcomes :
       /\ exc' = e
       /\ pc' = IF e # "none" THEN "propagated" ELSE "chat"
  /\ UNCHANGED <<argv0, argv, notices, args, profile_file, entry, interps, llms,
                 interpreter, update_failed>>

Chat ==
  /\ pc = "chat"
  /\ interps' = [interps EXCEPT ![interpreter].in_terminal_interface = Some(TRUE)]
  /\ log' = Append(log, "chat")
  /\ pc' = "in_mode"
  /\ UNCHANGED <<argv0, argv, notices, args, profile_file, entry, llms,
                 interpreter, update_failed, exc>>

\* conversation_navigator / interpreter.server() / interpreter.chat() ends
ModeEnds ==
  /\ pc = "in_mode"
  /\ \E e \in Outcomes :
       /\ exc' = e
       /\ pc' = IF e # "none" THEN "propagated" ELSE "returned"
  /\ UNCHANGED <<argv0, argv, notices, args, profile_file, entry, interps, llms,
                 interpreter, log, update_failed>>

\* main(): "except KeyboardInterrupt: pass" around start_terminal_interface
MainExit(p, e) ==
  IF p = "returned" \/ e = "KeyboardInterrupt" THEN "exit_clean" ELSE "exit_traceback"

Main ==
  /\ pc \in {"returned", "propagated"}
  /\ pc' = MainExit(pc, exc)
  /\ UNCHANGED <<argv0, argv, notices, args, profile_file, entry, interps, llms,
                 interpreter, log, update_failed, exc>>

Next ==
  \/ Special
  \/ SafetyCheck
  \/ Shortcut
  \/ Bind1
  \/ Profile
  \/ Bind2
  \/ Infer
  \/ UpdateCheck
  \/ Dispatch
  \/ Validate
  \/ Chat
  \/ ModeEnds
  \/ Main

Spec == Init /\ [][Next]_vars

\* ------------------------------------------- argument-vector specification
RECURSIVE Vectors(_)
Vectors(n) ==
  IF n = 0 THEN {<<>>}
  ELSE LET P == Vectors(n - 1)
       IN P \cup {Append(v, t) : v \in P, t \in Tokens}

\* sys.argv[1:] as the process received it
InitArgv ==
  \E v \in Vectors(MaxArgv) :
    /\ pc = "translate"
    /\ argv0 = v
    /\ argv = v
    /\ notices = 0
    /\ args = DefaultArgs
    /\ profile_file = NoProfile
    /\ interps = (EntryInterp :> BuiltinInterp)
    /\ llms = (EntryLlm :> BuiltinLlm)
    /\ entry = [interps |-> interps, llms |-> llms]
    /\ interpreter = EntryInterp
    /\ log = <<>>
    /\ update_failed = FALSE
    /\ exc = "none"

Translate ==
  /\ pc = "translate"
  /\ argv' = DeprecationRewrite(argv).argv
  /\ notices' = notices + DeprecationRewrite(argv).notices
  /\ pc' = "parse"
  /\ UNCHANGED <<argv0, args, profile_file, entry, interps, llms, interpreter, log,
                 update_failed, exc>>

Parse ==
  /\ pc = "parse"
  /\ args' = ParseArgs(argv).ns
  /\ pc' = IF ParseArgs(argv).ok THEN "special" ELSE "usage_error"
  /\ UNCHANGED <<argv0, argv, notices, profile_file, entry, interps, llms,
                 interpreter, log, update_failed, exc>>

NextArgv ==
  \/ Translate
  \/ Parse

SpecArgv == InitArgv /\ [][NextArgv]_vars

\* ------------------------------------------------------- claim vocabulary
\* the object the dispatched mode receives, and its language-model client
Handed == interps[interpreter]
HandedLlm == llms[Handed.llm]

HandedAttr(n) ==
  IF Binding[n].object = "interpreter"
  THEN Handed[Binding[n].attr_name]
  ELSE HandedLlm[Binding[n].attr_name]

\* the option was given on the command line (with a value other than what the
\* parser yields when it is absent)
Supplied(n) == args[n] # DefaultArgs[n]

ProfileSets(attr) == attr \in DOMAIN profile_file.sets

ModeEvents == {"conversation_navigator", "server", "chat"}
IsModeEvent(e) == e \in ModeEvents
ModesRun == SelectSeq(log, IsModeEvent)

IsStageEvent(e) == e \in {"set_attributes", "profile", "infer_model_defaults"}
StagesRun == SelectSeq(log, IsStageEvent)

Index(e) == CHOOSE i \in 1..Len(log) : log[i] = e
Logged(e) == e \in Range(log)
LastLogged == IF log = <<>> THEN "nothing" ELSE log[Len(log)]

\* special commands in the order the spec lists them, and which were asked for
SpecialOrder == <<"open_profile_dir", "reset_profile", "print_version">>

SpecialAsked(c) ==
  CASE c = "open_profile_dir" -> args.profiles = Some(TRUE)
    [] c = "reset_profile" -> args.reset_profile # Some("NOT_PROVIDED")
    [] c = "print_version" -> args.version = Some(TRUE)

AnySpecialAsked == \E i \in 1..3 : SpecialAsked(SpecialOrder[i])

\* terminal modes in descending precedence, and which were asked for
ModePrecedence == <<"conversation_navigator", "server", "chat">>

ModeAsked(m) ==
  CASE m = "conversation_navigator" -> args.conversations = Some(TRUE)
    [] m = "server" -> args.server = Some(TRUE)
    [] m = "chat" -> TRUE

FirstAsked(order, Asked(_)) ==
  order[CHOOSE i \in 1..Len(order) :
          Asked(order[i]) /\ \A j \in 1..(i - 1) : ~Asked(order[j])]

SafetyOn(o) == o.safe_mode = Some("ask") \/ o.safe_mode = Some("auto")

\* ------------------------------------------------------------------ claims

\* C1 (as stated): when a mode starts, every bound option that was given on the
\* command line and whose attribute the profile also sets holds the
\* command-line value on the object handed to the mode, whether the profile
\* composer returned the object it was given or a new one.
C1_CliOverridesProfile ==
  pc = "in_mode" =>
    \A n \in BoundNames :
      (Supplied(n) /\ ProfileSets(Binding[n].attr_name)) => HandedAttr(n) = args[n]

\* C2 (as stated): after the second binder pass, every bound option that was
\* not given on the command line and whose attribute the profile sets still
\* holds the profile's value (safe_mode and disable_telemetry included).
C2_ProfileBeatsDefault ==
  pc = "infer" =>
    \A n \in BoundNames :
      (~Supplied(n) /\ ProfileSets(Binding[n].attr_name))
        => HandedAttr(n) = profile_file.sets[Binding[n].attr_name]

\* C3 (as stated): when a mode starts, the object handed to it never has
\* auto_run enabled together with safe_mode "ask" or "auto", wherever the two
\* values came from.
C3_SafetyDisablesAutoRun ==
  pc = "in_mode" => ~(Truthy(Handed.auto_run) /\ SafetyOn(Handed))

\* C4: when a special command was asked for, exactly one runs, the first asked
\* for in the order open-profile-directory, reset-profile, print-version; the
\* function returns having made no other call (no binder pass, profile,
\* update check, validator or mode) and with every attribute of the target
\* object as it was at entry.
C4_SpecialCommandsTerminal ==
  (AnySpecialAsked /\ pc # "special") =>
    /\ pc \in {"returned", "exit_clean"}
    /\ log = <<FirstAsked(SpecialOrder, SpecialAsked)>>
    /\ interps = entry.interps
    /\ llms = entry.llms
    /\ interpreter = EntryInterp
    /\ exc = "none"

C4_Witness ==
  /\ pc = "returned"
  /\ args.profiles = Some(TRUE)
  /\ args.version = Some(TRUE)
  /\ args.auto_run = Some(TRUE)
  /\ log = <<"open_profile_dir">>
  /\ Handed.auto_run = Some(FALSE)

\* C5: at most one terminal mode is ever invoked; the one invoked is the first
\* asked for in the precedence conversation browser, server, chat; it is
\* invoked only after bind pass 1, profile load, bind pass 2 and model-default
\* inference, in that order; and a run with no special command that returns
\* normally has invoked exactly one.
C5_ExactlyOneMode ==
  /\ Len(ModesRun) <= 1
  /\ Len(ModesRun) = 1 =>
       /\ ModesRun[1] = FirstAsked(ModePrecedence, ModeAsked)
       /\ LastLogged = ModesRun[1]
       /\ StagesRun = <<"set_attributes", "profile", "set_attributes",
                        "infer_model_defaults">>
       /\ ~AnySpecialAsked
  /\ (pc = "returned" /\ ~AnySpecialAsked) => Len(ModesRun) = 1

C5_Witness ==
  /\ pc = "returned"
  /\ args.conversations = Some(TRUE)
  /\ args.server = Some(TRUE)
  /\ ModesRun = <<"conversation_navigator">>

C7_FlagPrecedesMode ==
  pc = "in_mode" => Handed.in_terminal_interface = Some(TRUE)

\* the values the spec gives for the two recognised model identifiers
KnownGood(model) ==
  IF model = Some("gpt-4-1106-preview")
  THEN [context_window |-> Some(128000), max_tokens |-> Some(4096),
        supports_functions |-> Some(TRUE)]
  ELSE [context_window |-> Some(16000), max_tokens |-> Some(4096),
        supports_functions |-> Some(TRUE)]

Recognised(model) ==
  model = Some("gpt-4-1106-preview") \/ model = Some("gpt-3.5-turbo-1106")

\* one inference step, field by field
C8_InferenceStep ==
  pc = "infer" =>
    LET before == llms[Handed.llm]
        after == llms'[Handed.llm]
    IN /\ after.model = before.model
       /\ \A field \in {"context_window", "max_tokens", "supports_functions"} :
            after[field] = IF before[field] = None /\ Recognised(before.model)
                           THEN KnownGood(before.model)[field]
                           ELSE before[field]

\* C8: the inference step leaves context_window, max_tokens and
\* supports_functions unchanged when they are not None or when the model is
\* not one of the two recognised identifiers, and otherwise sets them to
\* 128000 / 4096 / true for "gpt-4-1106-preview" and 16000 / 4096 / true for
\* "gpt-3.5-turbo-1106"; the model identifier itself is unchanged.
C8_InferenceFillsOnlyUnset == [][C8_InferenceStep]_vars

C8_Witness ==
  /\ pc = "update"
  /\ HandedLlm.model = Some("gpt-4-1106-preview")
  /\ HandedLlm.context_window = Some(128000)
  /\ HandedLlm.max_tokens = Some(2000)
  /\ HandedLlm.supports_functions = Some(FALSE)

\* the vector with --verbose written in place of each --debug_mode
Substituted(v) ==
  [i \in 1..Len(v) |-> IF v[i] = "--debug_mode" THEN "--verbose" ELSE v[i]]

\* C9 (as stated): for every argument vector holding --debug_mode, at any
\* position and any number of times, the translator prints exactly one notice,
\* leaves no --debug_mode token, the parse equals the parse of the vector with
\* --verbose written in place of each --debug_mode, and a second run of the
\* translator on its output changes nothing and prints nothing.
C9_DeprecatedFlagEquivalence ==
  (pc \in {"special", "usage_error"} /\ "--debug_mode" \in Range(argv0)) =>
    /\ notices = 1
    /\ "--debug_mode" \notin Range(argv)
    /\ (pc = "special") = ParseArgs(Substituted(argv0)).ok
    /\ args = ParseArgs(Substituted(argv0)).ns
    /\ DeprecationRewrite(argv) = [argv |-> argv, notices |-> 0]

\* the update-check step: on to dispatch, nothing raised, target untouched
C10_UpdateStep ==
  pc = "update" =>
    /\ pc' = "dispatch"
    /\ exc' = "none"
    /\ interps' = interps
    /\ llms' = llms
    /\ interpreter' = interpreter

\* after a failed check the asked-for mode runs; what another collaborator
\* raises leaves the function at once
C10_AfterFailure ==
  /\ (update_failed /\ Len(ModesRun) = 1)
       => ModesRun[1] = FirstAsked(ModePrecedence, ModeAsked)
  /\ (update_failed /\ pc = "returned") => Len(ModesRun) = 1
  /\ exc # "none" =>
       /\ pc \in {"propagated", "exit_clean", "exit_traceback"}
       /\ LastLogged \in {"profile", "validate_llm_settings"} \cup ModeEvents
  /\ pc = "propagated" => exc # "none"

\* C10: the update-check stage always falls through to dispatch, raising or
\* not, with the target object untouched; after a failed check the mode that
\* runs is the one the command line asks for; and whatever the profile
\* composer, the settings validator or a terminal mode raises leaves
\* start_terminal_interface at once, with nothing called after it.
C10_BestEffortUpdateCheck == [][C10_UpdateStep]_vars /\ []C10_AfterFailure

C10_Witness ==
  /\ update_failed
  /\ pc = "in_mode"
  /\ LastLogged = "server"
  /\ args.conversations = None

====
